---------------------------- MODULE Spec2Model ----------------------------
(***************************************************************************)
(* The document analysis pipeline of PolicyBriefly (src/app.py):           *)
(* section extraction, rule-based summary, bias patterns, impact scores,   *)
(* date and stakeholder extraction, and the AI-with-fallback strategy of   *)
(* analyze_policy_with_fallback.                                           *)
(*                                                                         *)
(* A text is a TLA+ string; the operators below work on its characters     *)
(* (SubSeq, Len, \o), as the Python code works on str.  A score is a       *)
(* reduced fraction <<n, d>> (0.7 is <<7, 10>>), a dict is a function      *)
(* whose DOMAIN is its key set, a list is a sequence.                      *)
(***************************************************************************)
EXTENDS Integers, Sequences, FiniteSets, TLC

VARIABLES text, client, pc, sections, results, outcome, calls

vars == <<text, client, pc, sections, results, outcome, calls>>

(***************************************************************************)
(* Characters and the character classes of Python's re (ASCII part).       *)
(***************************************************************************)
Ch(t, i) == IF i >= 1 /\ i <= Len(t) THEN SubSeq(t, i, i) ELSE ""

Digits == {"0", "1", "2", "3", "4", "5", "6", "7", "8", "9"}

LowerLetters == {"a", "b", "c", "d", "e", "f", "g", "h", "i", "j", "k", "l", "m",
                 "n", "o", "p", "q", "r", "s", "t", "u", "v", "w", "x", "y", "z"}

UpperToLower == [A |-> "a", B |-> "b", C |-> "c", D |-> "d", E |-> "e", F |-> "f",
                 G |-> "g", H |-> "h", I |-> "i", J |-> "j", K |-> "k", L |-> "l",
                 M |-> "m", N |-> "n", O |-> "o", P |-> "p", Q |-> "q", R |-> "r",
                 S |-> "s", T |-> "t", U |-> "u", V |-> "v", W |-> "w", X |-> "x",
                 Y |-> "y", Z |-> "z"]

UpperLetters == DOMAIN UpperToLower

\* \d
IsDigit(c) == c \in Digits

\* [A-Z] under re.IGNORECASE
IsLetter(c) == c \in LowerLetters \/ c \in UpperLetters

\* \w
IsWord(c) == IsLetter(c) \/ IsDigit(c) \/ c = "_"

\* \s
IsSpace(c) == c \in {" ", "\t", "\n", "\r", "\f"}

\* \b at position i: between character i-1 and character i
IsBoundary(t, i) == IsWord(Ch(t, i - 1)) # IsWord(Ch(t, i))

Min(S) == CHOOSE x \in S : \A y \in S : x <= y

\* the least position in from..to that satisfies Hit, 0 when there is none
First(from, to, Hit(_)) ==
    IF \E p \in from..to : Hit(p)
    THEN CHOOSE p \in from..to : Hit(p) /\ \A q \in from..(p - 1) : ~Hit(q)
    ELSE 0

\* str.lower()
RECURSIVE lower(_)
lower(t) ==
    IF Len(t) = 0 THEN ""
    ELSE IF Len(t) = 1 THEN (IF t \in UpperLetters THEN UpperToLower[t] ELSE t)
    ELSE LET h == Len(t) \div 2
         IN  lower(SubSeq(t, 1, h)) \o lower(SubSeq(t, h + 1, Len(t)))

\* s[:n]
Prefix(s, n) == SubSeq(s, 1, IF Len(s) < n THEN Len(s) ELSE n)

\* str.strip()
strip(s) ==
    LET inner == {i \in 1..Len(s) : ~IsSpace(Ch(s, i))}
    IN  IF inner = {} THEN ""
        ELSE SubSeq(s, Min(inner), CHOOSE i \in inner : \A j \in inner : j <= i)

\* t.startswith(w, i), positions from 1
StartsAt(t, w, i) == i >= 1 /\ i + Len(w) - 1 <= Len(t) /\ SubSeq(t, i, i + Len(w) - 1) = w

\* the first position >= from where w occurs in t, 0 when there is none
Find(t, w, from) ==
    LET Hit(i) == StartsAt(t, w, i)
    IN  First(from, Len(t) - Len(w) + 1, Hit)

\* str.count(w): occurrences of w from position `from` on, not overlapping
RECURSIVE CountFrom(_, _, _)
CountFrom(t, w, from) ==
    LET i == Find(t, w, from)
    IN  IF i = 0 THEN 0 ELSE 1 + CountFrom(t, w, i + Len(w))

count(t, w) == CountFrom(t, w, 1)

\* sum(text_lower.count(word) for word in words)
RECURSIVE SumCounts(_, _)
SumCounts(t, words) ==
    IF words = <<>> THEN 0 ELSE count(t, Head(words)) + SumCounts(t, Tail(words))

(***************************************************************************)
(* The date tokens of the regular expressions.  Each ...End operator is    *)
(* the match of one token at position p: the position after the match, or  *)
(* 0 when the token does not match at p.  Each token has at most one match *)
(* at a position, so greedy quantifiers and backtracking need no search.   *)
(***************************************************************************)
DigitsAt(t, p, k) == \A i \in p..(p + k - 1) : IsDigit(Ch(t, i))

\* \d{1,2} followed by one of seps: the number of digits taken, 0 for no match
NumSep(t, p, seps) ==
    IF DigitsAt(t, p, 2) /\ Ch(t, p + 2) \in seps THEN 2
    ELSE IF DigitsAt(t, p, 1) /\ Ch(t, p + 1) \in seps THEN 1
    ELSE 0

\* \d{1,2}[\/\-]\d{1,2}[\/\-]\d{4}
NumericDateEnd(t, p) ==
    LET a == NumSep(t, p, {"/", "-"})
        q == p + a + 1
        b == NumSep(t, q, {"/", "-"})
        r == q + b + 1
    IN  IF a # 0 /\ b # 0 /\ DigitsAt(t, r, 4) THEN r + 4 ELSE 0

\* the end of the run of \w characters that starts at p
WordRunEnd(t, p) == Min({i \in p..(Len(t) + 1) : ~IsWord(Ch(t, i))})

\* \w+ \d{1,2}, \d{4}
LongDateEnd(t, p) ==
    LET w == WordRunEnd(t, p)
        d == NumSep(t, w + 1, {","})
        r == w + 1 + d + 1
    IN  IF w > p /\ Ch(t, w) = " " /\ d # 0 /\ Ch(t, r) = " " /\ DigitsAt(t, r + 1, 4)
        THEN r + 5 ELSE 0

\* \d{4}-\d{2}-\d{2}
IsoDateEnd(t, p) ==
    IF /\ DigitsAt(t, p, 4) /\ Ch(t, p + 4) = "-"
       /\ DigitsAt(t, p + 5, 2) /\ Ch(t, p + 7) = "-"
       /\ DigitsAt(t, p + 8, 2)
    THEN p + 10 ELSE 0

(***************************************************************************)
(* extract_key_sections                                                    *)
(***************************************************************************)
SectionNames == {"summary", "background", "dates", "economic_impact", "effective_date"}

\* the heading literal of each heading pattern, lower-cased (re.IGNORECASE),
\* and whether an optional S follows it (DATES?)
HeadingLabel == [summary |-> "summary", background |-> "background",
                 dates |-> "date", economic_impact |-> "economic impact"]

HeadingOptionalS == [summary |-> FALSE, background |-> FALSE,
                     dates |-> TRUE, economic_impact |-> FALSE]

\* mutant: (?=[A-Z][A-Z\s]+:|$), a heading label ends the capture wherever it is
Lookahead_any_label(t, e) ==
    LET runEnd == Min({i \in (e + 1)..(Len(t) + 1) :
                          ~(IsLetter(Ch(t, i)) \/ IsSpace(Ch(t, i)))})
    IN  \/ /\ IsLetter(Ch(t, e))
           /\ runEnd > e + 1
           /\ Ch(t, runEnd) = ":"
        \/ e = Len(t) + 1
        \/ e = Len(t) /\ Ch(t, e) = "\n"

\* (?=\n[A-Z][A-Z\s]+:|$) at position e, under re.IGNORECASE | re.DOTALL
Lookahead(t, e) ==
    LET runEnd == Min({i \in (e + 2)..(Len(t) + 1) :
                          ~(IsLetter(Ch(t, i)) \/ IsSpace(Ch(t, i)))})
    IN  \/ /\ Ch(t, e) = "\n"
           /\ IsLetter(Ch(t, e + 1))
           /\ e + 2 <= Len(t) + 1
           /\ runEnd > e + 2
           /\ Ch(t, runEnd) = ":"
        \/ e = Len(t) + 1
        \/ e = Len(t) /\ Ch(t, e) = "\n"

\* re.search of a heading pattern: <<start of group 1, position after group 1>>,
\* <<0, 0>> when the pattern does not match
HeadingSearch(t, name) ==
    LET label   == HeadingLabel[name]
        i       == Find(lower(t), label, 1)
        afterL  == i + Len(label)
        afterS  == IF HeadingOptionalS[name] /\ lower(Ch(t, afterL)) = "s"
                   THEN afterL + 1 ELSE afterL
        afterC  == IF Ch(t, afterS) = ":" THEN afterS + 1 ELSE afterS
        cs      == Min({j \in afterC..(Len(t) + 1) : ~IsSpace(Ch(t, j))})
        ce      == Min({e \in cs..(Len(t) + 1) : Lookahead(t, e)})
    IN  IF i = 0 THEN <<0, 0>> ELSE <<cs, ce>>

\* re.search of the effective_date pattern
\* (?:effective|EFFECTIVE).*?(\d{1,2}[\/\-]\d{1,2}[\/\-]\d{4}|\w+ \d{1,2}, \d{4})
EffectiveDateSearch(t) ==
    LET i    == Find(lower(t), "effective", 1)
        hits == {p \in (i + 9)..Len(t) : NumericDateEnd(t, p) # 0 \/ LongDateEnd(t, p) # 0}
        p    == Min(hits)
    IN  IF i = 0 \/ hits = {} THEN <<0, 0>>
        ELSE IF NumericDateEnd(t, p) # 0 THEN <<p, NumericDateEnd(t, p)>>
        ELSE <<p, LongDateEnd(t, p)>>

SectionSearch(t, name) ==
    IF name = "effective_date" THEN EffectiveDateSearch(t) ELSE HeadingSearch(t, name)

SectionLimit == 500

extract_key_sections(t) ==
    LET found == {name \in SectionNames : SectionSearch(t, name)[1] # 0}
    IN  [name \in found |->
            LET m == SectionSearch(t, name)
            IN  Prefix(strip(SubSeq(t, m[1], m[2] - 1)), SectionLimit)]

(***************************************************************************)
(* create_rule_based_summary                                               *)
(***************************************************************************)
IsSentenceEnd(c) == c \in {".", "!", "?"}

\* re.split(r'[.!?]+', text), from position `from` on
RECURSIVE SplitFrom(_, _)
SplitFrom(t, from) ==
    LET ends == {i \in from..Len(t) : IsSentenceEnd(Ch(t, i))}
        p    == Min(ends)
        next == Min({i \in p..(Len(t) + 1) : ~IsSentenceEnd(Ch(t, i))})
    IN  IF ends = {} THEN <<SubSeq(t, from, Len(t))>>
        ELSE <<SubSeq(t, from, p - 1)>> \o SplitFrom(t, next)

split_sentences(t) == SplitFrom(t, 1)

\* " ".join(strs)
RECURSIVE join(_)
join(strs) ==
    IF strs = <<>> THEN ""
    ELSE IF Len(strs) = 1 THEN strs[1]
    ELSE strs[1] \o " " \o join(Tail(strs))

\* [f(s) for s in seq if keep(s)] with f = strip and keep = len(s.strip()) > MinSentence
RECURSIVE StripLong(_, _)
StripLong(strs, minLen) ==
    IF strs = <<>> THEN <<>>
    ELSE (IF Len(strip(Head(strs))) > minLen THEN <<strip(Head(strs))>> ELSE <<>>)
         \o StripLong(Tail(strs), minLen)

FirstSentences == 3
MinSentence == 20
SummaryLimit == 400
KeyPointsLimit == 300

\* mutant: [s.strip() for s in sentences if len(s.strip()) > 20][:3]
key_sentences_filter_first(t) ==
    LET long == StripLong(split_sentences(t), MinSentence)
    IN  SubSeq(long, 1, IF Len(long) < FirstSentences THEN Len(long) ELSE FirstSentences)

\* [s.strip() for s in sentences[:3] if len(s.strip()) > 20]
key_sentences(t) ==
    LET sentences == split_sentences(t)
        first     == SubSeq(sentences, 1, IF Len(sentences) < FirstSentences
                                          THEN Len(sentences) ELSE FirstSentences)
    IN  StripLong(first, MinSentence)

create_rule_based_summary(t, secs) ==
    IF "summary" \in DOMAIN secs
    THEN "**Key Points:** " \o Prefix(secs["summary"], KeyPointsLimit) \o "..."
    ELSE LET summary == join(key_sentences(t))
         IN  IF Len(summary) > SummaryLimit
             THEN Prefix(summary, SummaryLimit) \o "..."
             ELSE summary

(***************************************************************************)
(* Scores.  A score is a reduced fraction <<numerator, denominator>>.      *)
(***************************************************************************)
RECURSIVE GCD(_, _)
GCD(a, b) == IF b = 0 THEN a ELSE GCD(b, a % b)

\* n / d
Div(n, d) == LET g == GCD(n, d) IN <<n \div g, d \div g>>

Less(x, y) == x[1] * y[2] < y[1] * x[2]

\* min(x, y)
min(x, y) == IF Less(y, x) THEN y ELSE x

Zero == Div(0, 1)
One == Div(1, 1)

(***************************************************************************)
(* analyze_bias_patterns                                                   *)
(***************************************************************************)
positive_words == <<"benefit", "improve", "enhance", "opportunity", "growth">>
negative_words == <<"burden", "costly", "difficult", "challenge", "restrict">>
business_terms == <<"industry", "business", "company", "economic">>
public_terms == <<"citizen", "public", "community", "environmental">>

PositiveDetail == "Document uses predominantly positive language"
NegativeDetail == "Document uses predominantly negative language"
BusinessDetail == "Document appears to favor business interests"
PublicDetail == "Document appears to favor public interests"

\* mutant: the counts are taken on text, not on text_lower
analyze_bias_patterns_case_sensitive(t) ==
    LET P == SumCounts(t, positive_words)
        N == SumCounts(t, negative_words)
        B == SumCounts(t, business_terms)
        U == SumCounts(t, public_terms)
        language == IF P > N * 2 THEN <<Div(7, 10), <<PositiveDetail>>>>
                    ELSE IF N > P * 2 THEN <<Div(8, 10), <<NegativeDetail>>>>
                    ELSE <<Zero, <<>>>>
        stakeholder == IF B > U * 2 THEN <<Div(6, 10), <<BusinessDetail>>>>
                       ELSE IF U > B * 2 THEN <<Div(6, 10), <<PublicDetail>>>>
                       ELSE <<Zero, <<>>>>
    IN  [language_bias |-> language[1],
         stakeholder_bias |-> stakeholder[1],
         economic_bias |-> Zero,
         details |-> language[2] \o stakeholder[2]]

\* mutant: the language score is the share of directional words that are
\* positive or negative, not a fixed level
analyze_bias_patterns_graded(t) ==
    LET text_lower == lower(t)
        P == SumCounts(text_lower, positive_words)
        N == SumCounts(text_lower, negative_words)
        B == SumCounts(text_lower, business_terms)
        U == SumCounts(text_lower, public_terms)
        language == IF P > N * 2 THEN <<Div(P, P + N + 1), <<PositiveDetail>>>>
                    ELSE IF N > P * 2 THEN <<Div(N, P + N + 1), <<NegativeDetail>>>>
                    ELSE <<Zero, <<>>>>
        stakeholder == IF B > U * 2 THEN <<Div(6, 10), <<BusinessDetail>>>>
                       ELSE IF U > B * 2 THEN <<Div(6, 10), <<PublicDetail>>>>
                       ELSE <<Zero, <<>>>>
    IN  [language_bias |-> language[1],
         stakeholder_bias |-> stakeholder[1],
         economic_bias |-> Zero,
         details |-> language[2] \o stakeholder[2]]

analyze_bias_patterns(t) ==
    LET text_lower == lower(t)
        P == SumCounts(text_lower, positive_words)
        N == SumCounts(text_lower, negative_words)
        B == SumCounts(text_lower, business_terms)
        U == SumCounts(text_lower, public_terms)
        language == IF P > N * 2 THEN <<Div(7, 10), <<PositiveDetail>>>>
                    ELSE IF N > P * 2 THEN <<Div(8, 10), <<NegativeDetail>>>>
                    ELSE <<Zero, <<>>>>
        stakeholder == IF B > U * 2 THEN <<Div(6, 10), <<BusinessDetail>>>>
                       ELSE IF U > B * 2 THEN <<Div(6, 10), <<PublicDetail>>>>
                       ELSE <<Zero, <<>>>>
    IN  [language_bias |-> language[1],
         stakeholder_bias |-> stakeholder[1],
         economic_bias |-> Zero,
         details |-> language[2] \o stakeholder[2]]

(***************************************************************************)
(* calculate_impact_scores                                                 *)
(***************************************************************************)
complex_terms == <<"requirement", "shall", "must", "compliance", "regulation", "standard">>
cost_terms == <<"cost", "fee", "penalty", "fine", "expense", "budget">>
urgent_terms == <<"immediate", "within", "days", "effective", "deadline">>
scope_terms == <<"all", "every", "entire", "comprehensive", "broad", "wide">>

\* mutant: the scores are not clamped to 1.0
calculate_impact_scores_unclamped(t, secs) ==
    LET text_lower == lower(t)
    IN  [compliance_complexity |-> Div(SumCounts(text_lower, complex_terms), 10),
         cost_impact |-> Div(SumCounts(text_lower, cost_terms), 5),
         timeline_urgency |-> Div(SumCounts(text_lower, urgent_terms), 8),
         scope_breadth |-> Div(SumCounts(text_lower, scope_terms), 6)]

calculate_impact_scores(t, secs) ==
    LET text_lower == lower(t)
    IN  [compliance_complexity |-> min(Div(SumCounts(text_lower, complex_terms), 10), One),
         cost_impact |-> min(Div(SumCounts(text_lower, cost_terms), 5), One),
         timeline_urgency |-> min(Div(SumCounts(text_lower, urgent_terms), 8), One),
         scope_breadth |-> min(Div(SumCounts(text_lower, scope_terms), 6), One)]

(***************************************************************************)
(* extract_dates and extract_stakeholders                                  *)
(***************************************************************************)
\* one of date_patterns at position p, with its \b on both sides
DatePatternEnd(t, pattern, p) ==
    LET e == CASE pattern = 1 -> LongDateEnd(t, p)
               [] pattern = 2 -> NumericDateEnd(t, p)
               [] pattern = 3 -> IsoDateEnd(t, p)
    IN  IF IsBoundary(t, p) /\ e # 0 /\ IsBoundary(t, e) THEN e ELSE 0

\* re.findall(date_patterns[pattern], text), from position `from` on
RECURSIVE FindAllDates(_, _, _)
FindAllDates(t, pattern, from) ==
    LET Hit(q) == DatePatternEnd(t, pattern, q) # 0
        p      == First(from, Len(t), Hit)
        e      == DatePatternEnd(t, pattern, p)
    IN  IF p = 0 THEN <<>>
        ELSE <<SubSeq(t, p, e - 1)>> \o FindAllDates(t, pattern, e)

\* the list dates before it is made a set
date_matches(t) ==
    FindAllDates(t, 1, 1) \o FindAllDates(t, 2, 1) \o FindAllDates(t, 3, 1)

\* The alternatives of each stakeholder pattern, in order: <<literal, optional
\* last letter>>.  businesses? is the literal businesse and an optional s.
stakeholder_patterns ==
    << << <<"businesse", "s">>, <<"companies", "">>, <<"corporation", "s">>, <<"firm", "s">> >>,
       << <<"citizen", "s">>, <<"public", "">>, <<"communitie", "s">>, <<"consumer", "s">> >>,
       << <<"government", "">>, <<"agencie", "s">>, <<"department", "s">> >>,
       << <<"environmental group", "s">>, <<"advocacy", "">>, <<"organization", "s">> >> >>

\* one alternative, then \b: the optional letter is taken when the match
\* succeeds with it (greedy), left out otherwise
AlternativeEnd(t, alt, p) ==
    LET e == p + Len(alt[1])
    IN  IF ~StartsAt(t, alt[1], p) THEN 0
        ELSE IF alt[2] # "" /\ StartsAt(t, alt[2], e) /\ IsBoundary(t, e + 1) THEN e + 1
        ELSE IF IsBoundary(t, e) THEN e
        ELSE 0

\* \b(a|b|...)\b at position p: the first alternative that matches
RECURSIVE AlternativesEnd(_, _, _)
AlternativesEnd(t, alts, p) ==
    IF alts = <<>> \/ ~IsBoundary(t, p) THEN 0
    ELSE IF AlternativeEnd(t, Head(alts), p) # 0 THEN AlternativeEnd(t, Head(alts), p)
    ELSE AlternativesEnd(t, Tail(alts), p)

\* re.findall(pattern, text_lower), from position `from` on
RECURSIVE FindAllAlternatives(_, _, _)
FindAllAlternatives(t, alts, from) ==
    LET Hit(q) == AlternativesEnd(t, alts, q) # 0
        p      == First(from, Len(t), Hit)
        e      == AlternativesEnd(t, alts, p)
    IN  IF p = 0 THEN <<>>
        ELSE <<SubSeq(t, p, e - 1)>> \o FindAllAlternatives(t, alts, e)

RECURSIVE StakeholderMatchesFrom(_, _)
StakeholderMatchesFrom(t, patterns) ==
    IF patterns = <<>> THEN <<>>
    ELSE FindAllAlternatives(t, Head(patterns), 1) \o StakeholderMatchesFrom(t, Tail(patterns))

\* every match that stakeholders.update(matches) receives, in order
stakeholder_matches(t) == StakeholderMatchesFrom(lower(t), stakeholder_patterns)

Range(seq) == {seq[i] : i \in 1..Len(seq)}

\* the elements of seq at the positions in keep, in the order of seq
RECURSIVE Select(_, _, _)
Select(seq, keep, i) ==
    IF i > Len(seq) THEN <<>>
    ELSE (IF i \in keep THEN <<seq[i]>> ELSE <<>>) \o Select(seq, keep, i + 1)

\* the positions of the first occurrence of each element of seq
FirstOccurrences(seq) == {i \in 1..Len(seq) : \A j \in 1..(i - 1) : seq[j] # seq[i]}

\* set(seq), listed by first occurrence
unique(seq) == Select(seq, FirstOccurrences(seq), 1)

\* mutant: list(set(seq[:cap])), the list is cut before it is made a set
truncate_then_set(seq, cap) ==
    {unique(SubSeq(seq, 1, IF Len(seq) < cap THEN Len(seq) ELSE cap))}

\* list(set(seq))[:cap].  A set's iteration order is arbitrary, so which cap of
\* its elements the list begins with is arbitrary: every choice is an outcome.
\* Within a choice the elements are listed by first occurrence (no claim reads
\* the order of the list).
set_then_truncate(seq, cap) ==
    LET u == unique(seq)
        n == IF Len(u) < cap THEN Len(u) ELSE cap
    IN  {Select(u, keep, 1) : keep \in {k \in SUBSET (1..Len(u)) : Cardinality(k) = n}}

MaxDates == 5
MaxStakeholders == 8

\* the lists extract_dates(text) can return
extract_dates(t) == set_then_truncate(date_matches(t), MaxDates)

\* the lists extract_stakeholders(text) can return
extract_stakeholders(t) == set_then_truncate(stakeholder_matches(t), MaxStakeholders)

(***************************************************************************)
(* create_fallback_analysis and analyze_with_ai.  extract_dates and        *)
(* extract_stakeholders have several possible outcomes, so each of these   *)
(* is the set of results the function can return.                          *)
(***************************************************************************)
EmptyDict == [k \in {} |-> ""]

\* the dict analyze_with_ai starts from
InitialResults ==
    [summary |-> "", bias_analysis |-> EmptyDict, impact_scores |-> EmptyDict,
     key_dates |-> <<>>, stakeholders |-> <<>>]

create_fallback_analysis(t, secs) ==
    LET summary == create_rule_based_summary(t, secs)
        bias    == analyze_bias_patterns(t)
        impact  == calculate_impact_scores(t, secs)
    IN  {[summary |-> summary,
          bias_analysis |-> bias,
          impact_scores |-> impact,
          key_dates |-> dates,
          stakeholders |-> holders] :
            dates \in extract_dates(t), holders \in extract_stakeholders(t)}

\* analyze_with_ai after the summary is set: bias analysis (only when sections
\* is not empty), impact scoring, dates and stakeholders
analyze_with_ai_rest(t, secs, res) ==
    LET bias   == IF DOMAIN secs # {} THEN analyze_bias_patterns(t) ELSE res.bias_analysis
        impact == calculate_impact_scores(t, secs)
    IN  {[summary |-> res.summary,
          bias_analysis |-> bias,
          impact_scores |-> impact,
          key_dates |-> dates,
          stakeholders |-> holders] :
            dates \in extract_dates(t), holders \in extract_stakeholders(t)}

\* mutant: the except branch leaves the summary as it was initialised
summary_on_failure_unset(t, secs) == InitialResults.summary

\* the summary analyze_with_ai sets when client.text_generation raises
summary_on_failure(t, secs) == create_rule_based_summary(t, secs)

(***************************************************************************)
(* The input texts: concatenations of at most MaxFrags fragments of a      *)
(* vocabulary, and what client.text_generation may return.                 *)
(***************************************************************************)
MaxFrags == 3

RECURSIVE concat(_)
concat(frags) == IF frags = <<>> THEN "" ELSE Head(frags) \o concat(Tail(frags))

Texts(vocabulary) ==
    {concat(d) : d \in UNION {[1..k -> vocabulary] : k \in 0..MaxFrags}}

RECURSIVE repeat(_, _)
repeat(s, n) == IF n = 0 THEN "" ELSE s \o repeat(s, n - 1)

Responses == {"", "The rule lowers recycling costs."}

(***************************************************************************)
(* analyze_policy_with_fallback(text, client), step by step.               *)
(*   pc = "start"      the call has begun                                  *)
(*   pc = "extracted"  sections is set                                     *)
(*   pc = "generated"  analyze_with_ai has set results["summary"]          *)
(*   pc = "done"       results is the returned value                       *)
(* outcome records how client.text_generation ended, calls how often it    *)
(* was called.                                                             *)
(***************************************************************************)
InitWith(texts) ==
    /\ text \in texts
    /\ client \in {"none", "client"}
    /\ pc = "start"
    /\ sections = EmptyDict
    /\ results = InitialResults
    /\ outcome = "not_called"
    /\ calls = 0

\* sections = extract_key_sections(text)
ExtractSections ==
    /\ pc = "start"
    /\ sections' = extract_key_sections(text)
    /\ pc' = "extracted"
    /\ UNCHANGED <<text, client, results, outcome, calls>>

\* if not client: return create_fallback_analysis(text, sections)
FallbackAnalysis ==
    /\ pc = "extracted"
    /\ client = "none"
    /\ results' \in create_fallback_analysis(text, sections)
    /\ pc' = "done"
    /\ UNCHANGED <<text, client, sections, outcome, calls>>

\* analyze_with_ai: client.text_generation returns summary_response
TextGenerationReturns ==
    /\ pc = "extracted"
    /\ client = "client"
    /\ \E summary_response \in Responses :
          results' = [InitialResults EXCEPT !.summary = summary_response]
    /\ outcome' = "returned"
    /\ calls' = calls + 1
    /\ pc' = "generated"
    /\ UNCHANGED <<text, client, sections>>

\* mutant: a failed call is tried a second time before the except branch
\* gives up
TextGenerationRaises_retry ==
    /\ pc = "extracted"
    /\ client = "client"
    /\ calls < 2
    /\ results' = [InitialResults EXCEPT !.summary = summary_on_failure(text, sections)]
    /\ outcome' = "raised"
    /\ calls' = calls + 1
    /\ pc' = IF calls = 0 THEN "extracted" ELSE "generated"
    /\ UNCHANGED <<text, client, sections>>

\* analyze_with_ai: client.text_generation raises, the bare except catches it
TextGenerationRaises ==
    /\ pc = "extracted"
    /\ client = "client"
    /\ results' = [InitialResults EXCEPT !.summary = summary_on_failure(text, sections)]
    /\ outcome' = "raised"
    /\ calls' = calls + 1
    /\ pc' = "generated"
    /\ UNCHANGED <<text, client, sections>>

\* analyze_with_ai: the rest of the analysis, then return results
AnalyzeRest ==
    /\ pc = "generated"
    /\ results' \in analyze_with_ai_rest(text, sections, results)
    /\ pc' = "done"
    /\ UNCHANGED <<text, client, sections, outcome, calls>>

Next ==
    \/ ExtractSections
    \/ FallbackAnalysis
    \/ TextGenerationReturns
    \/ TextGenerationRaises
    \/ AnalyzeRest

(***************************************************************************)
(* Specifications: the same pipeline over different vocabularies.          *)
(***************************************************************************)
LongSentence == repeat("The agency will review all comments ", 4) \o "received"

PipelineVocabulary ==
    {"SUMMARY: This rule reduces costs.\n",
     "Yes. No. ",
     "The rule brings a benefit to industry growth! ",
     LongSentence \o ". "}

Init == InitWith(Texts(PipelineVocabulary))

Spec == Init /\ [][Next]_vars

\* texts for calculate_impact_scores
ImpactVocabulary ==
    {"Cost, cost, cost, cost and cost. ",
     "All shall meet every standard or pay a fine. ",
     "Compliance is a requirement of the regulation. ",
     "EFFECTIVE within 30 days of the deadline. "}

InitImpact == InitWith(Texts(ImpactVocabulary))

SpecImpact == InitImpact /\ [][Next]_vars

\* texts for analyze_bias_patterns
BiasVocabulary ==
    {"Benefit. ", "A burden. ", "Industry. ", "Public. ", "Summary: "}

InitBias == InitWith(Texts(BiasVocabulary))

SpecBias == InitBias /\ [][Next]_vars

\* texts for extract_dates and extract_stakeholders
DateVocabulary ==
    {"May 1, 2024, 1/2/2024 and 2024-01-15 ",
     "June 2, 2025, 3-4-2025 or 2025-03-04 "}

StakeholderVocabulary ==
    {"Businesses, firms, citizens, public and consumers. ",
     "Government agencies, advocacy organizations, business. "}

InitExtract == InitWith(Texts(DateVocabulary) \cup Texts(StakeholderVocabulary))

SpecExtract == InitExtract /\ [][Next]_vars

\* texts for extract_key_sections
SectionsVocabulary ==
    {"SUMMARY: This rule reduces costs.",
     " BACKGROUND: Industry requested changes.",
     "\nBACKGROUND: Industry requested changes.",
     "\nThe agency notes: ",
     "\n  DATES: Effective January 1, 2024."}

InitSections == InitWith(Texts(SectionsVocabulary))

SpecSections == InitSections /\ [][Next]_vars

\* a step of the run moves the position in the call forward
Advance == pc # "done" /\ pc' \in {"extracted", "generated", "done"}

\* The pipeline is one synchronous call: each statement runs when the one
\* before it has finished, and client.text_generation ends by returning or
\* by raising.  So a run never stops before its return.  Every step of Next
\* changes pc, so the fairness is stated on the change of pc; that a step of
\* Next is possible wherever pc is not "done" is CanStep below.
FairSpec == InitBias /\ [][Next]_vars /\ WF_pc(Advance)

(***************************************************************************)
(* Claims C1 - C4: the pipeline, under Spec.                               *)
(***************************************************************************)
Done == pc = "done"

\* the rule-based summary of the text and its sections, which is the summary
\* create_fallback_analysis returns when no client is supplied
RuleBasedSummary == create_rule_based_summary(text, extract_key_sections(text))

\* C1: when the client's generation call raises, analyze does not raise (the
\* run is at its return or can take its next step) and the summary is exactly
\* the summary that is returned when no client is supplied.
C1_FailedCallGivesNoClientSummary ==
    outcome = "raised" =>
        /\ results.summary = RuleBasedSummary
        /\ \/ Done
           \/ pc = "generated" /\ analyze_with_ai_rest(text, sections, results) # {}

\* a returned result after a failed call, on the sentence path of the summary
C1_Witness ==
    /\ Done
    /\ outcome = "raised"
    /\ "summary" \notin DOMAIN sections
    /\ results.summary = "The rule brings a benefit to industry growth"

\* C2: for any client, the bias_analysis, impact_scores, key_dates and
\* stakeholders of the result are those of the rule-based algorithms, also
\* when no section heading was found.
C2_FourFieldsAlwaysRuleBased ==
    Done =>
        /\ results.bias_analysis = analyze_bias_patterns(text)
        /\ results.impact_scores = calculate_impact_scores(text, sections)
        /\ results.key_dates \in extract_dates(text)
        /\ results.stakeholders \in extract_stakeholders(text)

\* C3: when the client is absent or its call raises, the summary returned for
\* a non-empty text is a non-empty string.
C3_FallbackSummaryNonEmpty ==
    (Done /\ outcome # "returned" /\ text # "") => results.summary # ""

BiasKeys == {"language_bias", "stakeholder_bias", "economic_bias", "details"}
ImpactKeys == {"compliance_complexity", "cost_impact", "timeline_urgency", "scope_breadth"}
ResultKeys == {"summary", "bias_analysis", "impact_scores", "key_dates", "stakeholders"}

\* C4: for every text and client behaviour the result is well formed: the five
\* fields, the four keys of bias_analysis, exactly the four keys of
\* impact_scores; for the empty text all scores are 0 and details, key_dates
\* and stakeholders are empty.
C4_ResultWellFormed ==
    Done =>
        /\ DOMAIN results = ResultKeys
        /\ BiasKeys \subseteq DOMAIN results.bias_analysis
        /\ DOMAIN results.impact_scores = ImpactKeys
        /\ text = "" =>
              /\ \A k \in ImpactKeys : results.impact_scores[k] = Zero
              /\ \A k \in BiasKeys \ {"details"} : results.bias_analysis[k] = Zero
              /\ results.bias_analysis.details = <<>>
              /\ results.key_dates = <<>>
              /\ results.stakeholders = <<>>

(***************************************************************************)
(* Keyword counts, stated on positions: the number of places of the        *)
(* lower-cased text where a word of the lexicon begins.                    *)
(***************************************************************************)
Occurrences(t, word) ==
    LET lt == lower(t) IN Cardinality({i \in 1..Len(lt) : StartsAt(lt, word, i)})

RECURSIVE KeywordCount(_, _)
KeywordCount(t, words) ==
    IF words = {} THEN 0
    ELSE LET w == CHOOSE x \in words : TRUE
         IN  Occurrences(t, w) + KeywordCount(t, words \ {w})

(***************************************************************************)
(* Claim C5: calculate_impact_scores, under SpecImpact.                    *)
(***************************************************************************)
ImpactLexicon ==
    [compliance_complexity |-> {"requirement", "shall", "must", "compliance", "regulation", "standard"},
     cost_impact |-> {"cost", "fee", "penalty", "fine", "expense", "budget"},
     timeline_urgency |-> {"immediate", "within", "days", "effective", "deadline"},
     scope_breadth |-> {"all", "every", "entire", "comprehensive", "broad", "wide"}]

ImpactDivisor ==
    [compliance_complexity |-> 10, cost_impact |-> 5, timeline_urgency |-> 8, scope_breadth |-> 6]

\* score is min(n / divisor, 1)
IsClampedRatio(score, n, divisor) ==
    /\ score[2] > 0 /\ 0 <= score[1] /\ score[1] <= score[2]
    /\ n >= divisor => score = One
    /\ n < divisor => score[1] * divisor = n * score[2]

\* C5: score_impact returns exactly the four keys, each min(keyword count /
\* divisor, 1) with divisors 10, 5, 8, 6, hence in [0, 1]; all four are 0 for
\* the empty text and a dimension is 1 when its count reaches its divisor.
C5_ImpactScoresClamped ==
    Done =>
        /\ DOMAIN results.impact_scores = ImpactKeys
        /\ \A k \in ImpactKeys :
              IsClampedRatio(results.impact_scores[k],
                             KeywordCount(text, ImpactLexicon[k]), ImpactDivisor[k])
        /\ text = "" => \A k \in ImpactKeys : results.impact_scores[k] = Zero

\* "cost" ten times: 10 / 5 is clamped to 1
C5_Witness ==
    /\ Done
    /\ Occurrences(text, "cost") = 10
    /\ results.impact_scores.cost_impact = One
    /\ results.impact_scores.scope_breadth = Zero

(***************************************************************************)
(* Claims C6 and C10: analyze_bias_patterns, under SpecBias.               *)
(***************************************************************************)
BiasComputed == Done /\ DOMAIN results.bias_analysis # {}

BiasLevels == {Zero, Div(6, 10), Div(7, 10), Div(8, 10)}

\* C6: analyze_bias returns language_bias and stakeholder_bias in
\* {0, 0.6, 0.7, 0.8} and economic_bias 0.
C6_BiasLevels ==
    BiasComputed =>
        /\ results.bias_analysis.language_bias \in BiasLevels
        /\ results.bias_analysis.stakeholder_bias \in BiasLevels
        /\ results.bias_analysis.economic_bias = Zero

C6_Witness ==
    /\ BiasComputed
    /\ results.bias_analysis.language_bias = Div(8, 10)
    /\ results.bias_analysis.stakeholder_bias = Div(6, 10)

PositiveCount == KeywordCount(text, {"benefit", "improve", "enhance", "opportunity", "growth"})
NegativeCount == KeywordCount(text, {"burden", "costly", "difficult", "challenge", "restrict"})
BusinessCount == KeywordCount(text, {"industry", "business", "company", "economic"})
PublicCount == KeywordCount(text, {"citizen", "public", "community", "environmental"})

\* C10: language_bias is 0.7 with the positive detail exactly when P > 2N, 0.8
\* with the negative detail exactly when not P > 2N and N > 2P, else 0 with no
\* language detail; stakeholder_bias is 0.6 with the business detail exactly
\* when B > 2U, 0.6 with the public detail exactly when not B > 2U and U > 2B,
\* else 0; so details has at most two entries, the language detail first, and
\* is empty exactly when both scores are 0.
C10_BiasThresholds ==
    BiasComputed =>
        LET P == PositiveCount
            N == NegativeCount
            B == BusinessCount
            U == PublicCount
            bias == results.bias_analysis
            language == IF P > 2 * N THEN <<PositiveDetail>>
                        ELSE IF N > 2 * P THEN <<NegativeDetail>>
                        ELSE <<>>
            stakeholder == IF B > 2 * U THEN <<BusinessDetail>>
                           ELSE IF U > 2 * B THEN <<PublicDetail>>
                           ELSE <<>>
        IN  /\ bias.language_bias = Div(7, 10) <=> P > 2 * N
            /\ bias.language_bias = Div(8, 10) <=> (~(P > 2 * N) /\ N > 2 * P)
            /\ bias.language_bias = Zero <=> (~(P > 2 * N) /\ ~(N > 2 * P))
            /\ bias.stakeholder_bias = Div(6, 10) <=> (B > 2 * U \/ U > 2 * B)
            /\ bias.stakeholder_bias = Zero <=> (~(B > 2 * U) /\ ~(U > 2 * B))
            /\ bias.details = language \o stakeholder
            /\ Len(bias.details) <= 2
            /\ bias.details = <<>> <=> (bias.language_bias = Zero /\ bias.stakeholder_bias = Zero)

\* both details, the language detail first
C10_Witness ==
    /\ BiasComputed
    /\ PositiveCount = 2 /\ NegativeCount = 0 /\ BusinessCount = 1 /\ PublicCount = 0
    /\ results.bias_analysis.details = <<PositiveDetail, BusinessDetail>>

(***************************************************************************)
(* Claim C7: extract_dates and extract_stakeholders, under SpecExtract.    *)
(***************************************************************************)
NoDuplicates(seq) == \A i, j \in 1..Len(seq) : seq[i] = seq[j] => i = j

AtMost(n, cap) == IF n < cap THEN n ELSE cap

\* C7: key_dates has at most 5 entries and stakeholders at most 8, without
\* duplicates, every entry a pattern match in the text; the number returned
\* is min(cap, number of distinct matches), so a repeated match never
\* displaces a distinct one that fits within the cap.
C7_DedupBeforeTruncation ==
    Done =>
        LET dates   == Range(date_matches(text))
            holders == Range(stakeholder_matches(text))
        IN  /\ Len(results.key_dates) <= 5
            /\ Len(results.stakeholders) <= 8
            /\ NoDuplicates(results.key_dates)
            /\ NoDuplicates(results.stakeholders)
            /\ Range(results.key_dates) \subseteq dates
            /\ Range(results.stakeholders) \subseteq holders
            /\ Len(results.key_dates) = AtMost(Cardinality(dates), 5)
            /\ Len(results.stakeholders) = AtMost(Cardinality(holders), 8)

\* six matches, three of them distinct: all three are returned
C7_Witness ==
    /\ Done
    /\ Len(date_matches(text)) = 6
    /\ Len(results.key_dates) = 3
    /\ Range(results.key_dates) = Range(date_matches(text))

(***************************************************************************)
(* Claim C8: extract_key_sections, under SpecSections.                     *)
(***************************************************************************)
SameLineText == "SUMMARY: This rule reduces costs. BACKGROUND: Industry requested changes."
NextLineText == "SUMMARY: This rule reduces costs.\nBACKGROUND: Industry requested changes."

Extracted == pc # "start"

\* C8 as claimed: a section's text ends at the next heading label, also when
\* both headings are on one line.
C8_CaptureEndsAtNextLabel ==
    (Extracted /\ text \in {SameLineText, NextLineText}) =>
        /\ "summary" \in DOMAIN sections /\ "background" \in DOMAIN sections
        /\ sections["summary"] = "This rule reduces costs."
        /\ sections["background"] = "Industry requested changes."

\* a newline at position e of s that begins a heading line: a letter, then
\* letters or whitespace, then a colon
HeadingLineAt(s, e) ==
    /\ Ch(s, e) = "\n"
    /\ IsLetter(Ch(s, e + 1))
    /\ \E x \in (e + 3)..Len(s) :
          /\ Ch(s, x) = ":"
          /\ \A i \in (e + 2)..(x - 1) : IsLetter(Ch(s, i)) \/ IsSpace(Ch(s, i))

IsSuffix(s, t) == Len(s) <= Len(t) /\ SubSeq(t, Len(t) - Len(s) + 1, Len(t)) = s

HeadingSections == {"summary", "background", "dates", "economic_impact"}

\* C8 as amended: a section's text ends at the first newline that begins a
\* heading line, or at the end of the text; a label on the same line does not
\* end it.
C8_CaptureEndsAtHeadingLine ==
    Extracted =>
        /\ \A name \in HeadingSections \cap DOMAIN sections :
              /\ \A e \in 1..Len(sections[name]) : ~HeadingLineAt(sections[name], e)
              /\ ((\A e \in 1..Len(text) : ~HeadingLineAt(text, e)) /\ Len(text) <= SectionLimit)
                    => IsSuffix(sections[name], strip(text))
        /\ text = NextLineText =>
              /\ sections["summary"] = "This rule reduces costs."
              /\ sections["background"] = "Industry requested changes."
        /\ text = SameLineText =>
              /\ sections["summary"] =
                    "This rule reduces costs. BACKGROUND: Industry requested changes."
              /\ sections["background"] = "Industry requested changes."

C8_Witness ==
    /\ Extracted
    /\ text = NextLineText
    /\ sections["summary"] = "This rule reduces costs."

(***************************************************************************)
(* Claim C9: create_rule_based_summary without a summary section, under    *)
(* Spec.                                                                   *)
(***************************************************************************)
RuleBasedWithoutSection == Done /\ outcome # "returned" /\ "summary" \notin DOMAIN sections

\* join, then cut to 400 characters and "..." when longer
JoinAndCut(strs) ==
    IF Len(join(strs)) > 400 THEN SubSeq(join(strs), 1, 400) \o "..." ELSE join(strs)

\* the trimmed fragments of text at the positions in `at`
TrimmedAt(at) ==
    LET fragments == split_sentences(text)
        kept      == Select(fragments, at \cap (1..Len(fragments)), 1)
    IN  [i \in 1..Len(kept) |-> strip(kept[i])]

IsLongFragment(i) ==
    LET fragments == split_sentences(text)
    IN  i \in 1..Len(fragments) /\ Len(strip(fragments[i])) > 20

\* the positions of the first three fragments longer than 20, wherever they are
FirstThreeLong ==
    {i \in 1..Len(split_sentences(text)) :
        IsLongFragment(i) /\ Cardinality({j \in 1..(i - 1) : IsLongFragment(j)}) < 3}

\* C9 as claimed: the summary joins the first three fragments longer than 20
\* characters, skipping shorter fragments wherever they occur.
C9_FirstThreeLongFragments ==
    RuleBasedWithoutSection =>
        /\ results.summary = JoinAndCut(TrimmedAt(FirstThreeLong))
        /\ Len(results.summary) <= 403

\* C9 as amended: the summary joins those of the first three fragments that
\* are longer than 20 characters; a short fragment among the first three is
\* dropped and no later fragment takes its place.
C9_LongAmongFirstThree ==
    RuleBasedWithoutSection =>
        /\ results.summary = JoinAndCut(TrimmedAt({i \in 1..3 : IsLongFragment(i)}))
        /\ Len(results.summary) <= 403

\* three long sentences, cut to 400 characters and "..."
C9_Witness ==
    /\ RuleBasedWithoutSection
    /\ Len(results.summary) = 403
    /\ SubSeq(results.summary, 401, 403) = "..."

(***************************************************************************)
(* Claim C11: the order of the steps of a run, under FairSpec.             *)
(***************************************************************************)
\* before section extraction nothing else has happened; the call is made at
\* most once and never without a client
StepsInOrder ==
    /\ pc = "start" =>
          (sections = EmptyDict /\ results = InitialResults
              /\ outcome = "not_called" /\ calls = 0)
    /\ calls <= 1
    /\ calls = 0 <=> outcome = "not_called"
    /\ client = "none" => calls = 0

\* the run is at its return or its next statement can run (no statement is
\* left without an outcome)
CanStep ==
    \/ Done
    \/ pc = "start"
    \/ pc = "extracted" /\ client = "client"
    \/ pc = "extracted" /\ client = "none" /\ create_fallback_analysis(text, sections) # {}
    \/ pc = "generated" /\ analyze_with_ai_rest(text, sections, results) # {}

\* the first step is section extraction; a call is made only after it, only
\* with a client and only when none was made before
CallAfterExtraction ==
    /\ pc = "start" => (pc' = "extracted" /\ sections' = extract_key_sections(text))
    /\ calls' # calls =>
          (pc = "extracted" /\ client = "client" /\ calls = 0 /\ calls' = 1)

\* C11: in every run section extraction completes before any other step; the
\* external generation call is made at most once, never without a client and
\* always after section extraction; and every run reaches a returned result,
\* whether the call succeeds or fails, without a retry of the call.
C11_SectionsFirstOneCallAlwaysReturns ==
    /\ []StepsInOrder
    /\ []CanStep
    /\ [][CallAfterExtraction]_vars
    /\ <>Done
    /\ [](outcome = "raised" => <>(Done /\ calls = 1))

\* a returned result after the one call failed, with sections extracted
C11_Witness ==
    /\ Done
    /\ outcome = "raised"
    /\ calls = 1
    /\ DOMAIN sections # {}

=============================================================================
